---- MODULE Spec2Model ----
(***************************************************************************)
(* Sverchok: the JSON importer (utils/sv_json_import.py) replayed against  *)
(* a host node tree, and the vector math node (nodes/vector/math.py).      *)
(*                                                                         *)
(* Part I models JSONImporter01.import_into_tree as a sequence of steps,   *)
(* one per host call or generator resumption.  Part II models              *)
(* VectorMathNode: its socket reshaping and its recursive broadcasting.    *)
(***************************************************************************)
EXTENDS Integers, Sequences, FiniteSets, TLC

(***************************************************************************)
(* Bounds of the model.                                                    *)
(***************************************************************************)
MaxNodes == 2       \* entries of structure["nodes"]
MaxLinks == 2       \* entries of structure["update_lists"]
MaxSockKeys == 2    \* keys of one entry's "custom_socket_props"

None == <<>>        \* Python's None, and a local variable never assigned

(***************************************************************************)
(* Part I.  The importer.                                                  *)
(***************************************************************************)
VARIABLES
    nNodes,         \* len(structure["nodes"]); entry i is keyed (named) i
    update_lists,   \* structure["update_lists"], once the _links generator read it
    treeNodes,      \* tree.nodes: records [name, by]
    treeLinks,      \* links made by tree.links.new: records [from, to, entry]
    frozen,         \* the tree is frozen
    freezeCalls,    \* calls of tree.freeze
    unfreezeCalls,  \* calls of tree.unfreeze
    pc,             \* position in import_into_tree
    exc,            \* the exception in flight out of the with body, or "none"
    nodesRead,      \* entries the _nodes generator has yielded
    linksRead,      \* entries the _links generator has read
    cur,            \* the NodeImporter01 in hand: its name, the attribute keys read
    queue,          \* what the generator being iterated has left to yield
    socket,         \* the local variable `socket` of import_into_tree
    new_node_names, \* the dict new_node_names
    log,            \* FailsLog._log
    raised,         \* history: exceptions raised inside add_fail blocks, by name
    calls,          \* history: host calls made for the entry in hand
    configured,     \* history: entries whose three configuration loops ended
    refused,        \* history: entries for which tree.nodes.new raised
    report          \* what report_log_result printed

VARIABLES
    items_,                 \* VectorMathNode.items_
    inputs,                 \* self.inputs, in order: [name, type]
    outputs,                \* self.outputs, in order: [name, type]
    scalar_output_socket,   \* self.scalar_output_socket
    label,                  \* self.label
    out_linked,             \* the output socket has links
    u_up,                   \* the data linked to input U, or Unlinked
    v_up,                   \* the data linked to input V, or Unlinked
    out_data,               \* what SvSetSocketAnyType last set: [socket, value]
    updated                 \* history: update() ran since items_ last changed

nodeVars == <<items_, inputs, outputs, scalar_output_socket, label, out_linked,
              u_up, v_up, out_data, updated>>

importVars == <<nNodes, update_lists, treeNodes, treeLinks, frozen, freezeCalls,
                unfreezeCalls, pc, exc, nodesRead, linksRead, cur, queue, socket,
                new_node_names, log, raised, calls, configured, refused, report>>

(* The names link entries use, and the names nodes of the tree may carry   *)
(* before the import: those of the first two entries.                      *)
LinkNames == {1, 2}

(* structure[node]["bl_idname"]: absent, a type the host registers, a type *)
(* the host refuses.                                                       *)
NoKey == "absent"
BlIdnames == {NoKey, "SvGoodNode", "SvDependentNode", "SvUnknownNode"}
Registered == {"SvGoodNode"}
Dependent == {"SvDependentNode"}     \* dummy_nodes.is_dependent

(* Every node the host creates has one input and one output socket.        *)
NodeInputs == {0}
NodeOutputs == {0}
SocketIndices == {0, 1}

(* node_attributes: the optional attributes, in the order of the code.     *)
required_attributes == <<"height", "width", "label", "hide", "color", "use_custom_color">>
OptionalKeySets == {{}, {"width"}, {"height", "color"}}
AttrKeySets == {l \cup o : l \in {{}, {"location"}}, o \in OptionalKeySets}

(* structure[node]["params"], as the sequence of its keys.                 *)
ParamsChoices == {<<>>, <<"p1">>}

(* structure[node]["custom_socket_props"], as the sequence of its keys;    *)
(* every key holds one property.                                           *)
SockKeys == {"0", "1", "x"}
NoRepeat(s) == \A i, j \in 1..Len(s) : i # j => s[i] # s[j]
SeqsUpTo(S, n) == UNION {[1..k -> S] : k \in 0..n}
SockPropsChoices == {s \in SeqsUpTo(SockKeys, MaxSockKeys) : NoRepeat(s)}

(* An entry of update_lists: four fields, or (malformed) three.            *)
LinkEntries ==
    {e \in {<<a, i, b, j>> : a \in LinkNames, i \in NodeOutputs,
                                b \in LinkNames, j \in SocketIndices} : e[1] # e[3]}
    \cup {<<1, 0, 2>>}
UpdateLists == SeqsUpTo(LinkEntries, MaxLinks)

(* int(str_index): <<index>>, or None where int() raises ValueError.       *)
ParseInt(s) == CASE s = "0" -> <<0>> [] s = "1" -> <<1>> [] OTHER -> None

(* Names in the tree: <<n, 0>> is "n", <<n, k>> is "n.00k".  The host      *)
(* renames a node whose requested name is taken.                           *)
NamesOf(nodes) == {n.name : n \in nodes}
HostUniqueName(name, nodes) ==
    LET free == {k \in 0..Cardinality(nodes) : <<name, k>> \notin NamesOf(nodes)}
    IN  <<name, CHOOSE k \in free : \A m \in free : k <= m>>

(* FailsLog.add_fail, its except clause: self._log[fail_name] += 1 on a    *)
(* defaultdict(int).                                                       *)
add_fail_once(l, fail_name) ==
    IF fail_name \in DOMAIN l THEN l ELSE l @@ (fail_name :> 1)
add_fail(l, fail_name) ==
    IF fail_name \in DOMAIN l
    THEN [l EXCEPT ![fail_name] = @ + 1]
    ELSE l @@ (fail_name :> 1)

(* The history of raises: how many times each name was raised.             *)
Tally(h, fail_name) ==
    [x \in DOMAIN h \cup {fail_name} |->
        (IF x \in DOMAIN h THEN h[x] ELSE 0) + (IF x = fail_name THEN 1 ELSE 0)]

(* FailsLog.has_fails: bool(self._log).                                    *)
has_fails(l) == DOMAIN l # {}

(* FailsLog.report_log_result: the message and the lines printed.          *)
report_log_result(l) ==
    IF has_fails(l)
    THEN [message |-> "During import next fails has happened:",
          lines |-> {<<msg, l[msg]>> : msg \in DOMAIN l}]
    ELSE [message |-> "Import done with no fails", lines |-> {}]

EmptyLog == [x \in {} |-> 0]
NoImporter == [name |-> 0, keys |-> {}]

ImportInit ==
    /\ nNodes \in 0..MaxNodes
    /\ update_lists = <<>>
    /\ treeNodes \in {{[name |-> <<n, 0>>, by |-> "host"] : n \in S} : S \in SUBSET LinkNames}
    /\ treeLinks = {}
    /\ frozen = FALSE
    /\ freezeCalls = 0
    /\ unfreezeCalls = 0
    /\ pc = "start"
    /\ exc = "none"
    /\ nodesRead = 0
    /\ linksRead = 0
    /\ cur = NoImporter
    /\ queue = <<>>
    /\ socket = None
    /\ new_node_names = EmptyLog
    /\ log = EmptyLog
    /\ raised = EmptyLog
    /\ calls = <<>>
    /\ configured = {}
    /\ refused = {}
    /\ report = [message |-> "", lines |-> {}]


(* Logging one guarded step: the log and the history of raises.            *)
Guard(l, fail_name, didRaise) == IF didRaise THEN add_fail(l, fail_name) ELSE l
Note(h, fail_name, didRaise) == IF didRaise THEN Tally(h, fail_name) ELSE h

(* TreeGenerator.start_from_tree up to its yield: tree.freeze(hard=True).  *)
start_from_tree ==
    /\ pc = "start"
    /\ frozen' = TRUE
    /\ freezeCalls' = freezeCalls + 1
    /\ pc' = "nodes"
    /\ UNCHANGED <<nNodes, update_lists, treeNodes, treeLinks, unfreezeCalls, exc,
                   nodesRead, linksRead, cur, queue, socket, new_node_names, log,
                   raised, calls, configured, refused, report>>
    /\ UNCHANGED nodeVars

(* TreeGenerator.add_node: the node created (its name in the tree), or     *)
(* None with the exception of tree.nodes.new caught by add_fail.           *)
(* A type is created if it is registered, or dependent and so registered   *)
(* as a dummy first.                                                       *)
add_node_keeps_node(nodes, bl_type, node_name) ==
    [nodes |-> nodes \cup {[name |-> HostUniqueName(node_name, nodes), by |-> "import"]},
     node |-> IF bl_type \in Registered \cup Dependent
              THEN HostUniqueName(node_name, nodes) ELSE None,
     caught |-> bl_type \notin Registered \cup Dependent]
add_node(nodes, bl_type, node_name) ==
    IF bl_type \in Registered \cup Dependent
    THEN [nodes |-> nodes \cup {[name |-> HostUniqueName(node_name, nodes), by |-> "import"]},
          node |-> HostUniqueName(node_name, nodes), caught |-> FALSE]
    ELSE [nodes |-> nodes, node |-> None, caught |-> TRUE]

(* One iteration of `for node_importer in self._nodes()` up to the first   *)
(* configuration loop: node_type, add_node, the `continue`, the mapping.   *)
next_node ==
    /\ pc = "nodes"
    /\ nodesRead < nNodes
    /\ \E bl \in BlIdnames :
         LET name == nodesRead + 1
             r == add_node(treeNodes, bl, name)
         IN  /\ nodesRead' = name
             /\ cur' = [name |-> name, keys |-> {}]
             /\ queue' = <<>>
             /\ IF bl = NoKey
                THEN \* node_importer.node_type raises KeyError outside any add_fail
                     /\ exc' = "KeyError"
                     /\ pc' = "finally"
                     /\ calls' = <<>>
                     /\ UNCHANGED <<treeNodes, new_node_names, log, raised, refused>>
                ELSE /\ treeNodes' = r.nodes
                     /\ log' = Guard(log, "Creating node", r.caught)
                     /\ raised' = Note(raised, "Creating node", bl \notin Registered \cup Dependent)
                     /\ refused' = IF bl \notin Registered \cup Dependent
                                   THEN refused \cup {name} ELSE refused
                     /\ IF r.node = None
                        THEN \* `continue`
                             /\ pc' = "nodes"
                             /\ calls' = <<>>
                             /\ UNCHANGED <<exc, new_node_names>>
                        ELSE /\ new_node_names' = new_node_names @@ (name :> r.node)
                             /\ pc' = "created"
                             /\ calls' = <<[kind |-> "new", node |-> r.node]>>
                             /\ UNCHANGED exc
    /\ UNCHANGED <<nNodes, update_lists, treeLinks, frozen, freezeCalls, unfreezeCalls,
                   linksRead, socket, configured, report>>
    /\ UNCHANGED nodeVars


(* NodeImporter01.node_attributes: what the generator yields for a         *)
(* structure with the keys `keys`, in order.                               *)
InOrder(attrs, keys) == SelectSeq(attrs, LAMBDA a : a \in keys)
node_attributes_late(keys) ==
    InOrder(required_attributes, keys) \o InOrder(<<"location">>, keys)
node_attributes(keys) ==
    InOrder(<<"location">>, keys) \o InOrder(required_attributes, keys)

(* The first resumption of node_attributes: the structure's keys are read, *)
(* a missing "location" is counted.                                        *)
read_node_attributes ==
    /\ pc = "created"
    /\ \E keys \in AttrKeySets :
         /\ cur' = [cur EXCEPT !.keys = keys]
         /\ queue' = node_attributes(keys)
         /\ log' = Guard(log, "Reading node location", "location" \notin keys)
         /\ raised' = Note(raised, "Reading node location", "location" \notin keys)
    /\ pc' = "attrs"
    /\ UNCHANGED <<nNodes, update_lists, treeNodes, treeLinks, frozen, freezeCalls,
                   unfreezeCalls, exc, nodesRead, linksRead, socket, new_node_names,
                   calls, configured, refused, report>>
    /\ UNCHANGED nodeVars

(* NodeGenerator.set_node_attribute: setattr(self.node, attr_name, value). *)
set_node_attribute ==
    /\ pc = "attrs"
    /\ queue # <<>>
    /\ calls' = Append(calls, [kind |-> "attr", name |-> Head(queue)])
    /\ queue' = Tail(queue)
    /\ UNCHANGED <<nNodes, update_lists, treeNodes, treeLinks, frozen, freezeCalls,
                   unfreezeCalls, pc, exc, nodesRead, linksRead, cur, socket,
                   new_node_names, log, raised, configured, refused, report>>
    /\ UNCHANGED nodeVars

(* The first resumption of NodeImporter01.node_properties.                 *)
read_node_properties ==
    /\ pc = "attrs"
    /\ queue = <<>>
    /\ \E params \in ParamsChoices : queue' = params
    /\ pc' = "props"
    /\ UNCHANGED <<nNodes, update_lists, treeNodes, treeLinks, frozen, freezeCalls,
                   unfreezeCalls, exc, nodesRead, linksRead, cur, socket,
                   new_node_names, log, raised, calls, configured, refused, report>>
    /\ UNCHANGED nodeVars

(* NodeGenerator.set_node_property: prop.value = value.                    *)
set_node_property ==
    /\ pc = "props"
    /\ queue # <<>>
    /\ calls' = Append(calls, [kind |-> "prop", name |-> Head(queue)])
    /\ queue' = Tail(queue)
    /\ UNCHANGED <<nNodes, update_lists, treeNodes, treeLinks, frozen, freezeCalls,
                   unfreezeCalls, pc, exc, nodesRead, linksRead, cur, socket,
                   new_node_names, log, raised, configured, refused, report>>
    /\ UNCHANGED nodeVars

(* The first resumption of NodeImporter01.input_socket_properties.         *)
read_input_socket_properties ==
    /\ pc = "props"
    /\ queue = <<>>
    /\ \E props \in SockPropsChoices : queue' = props
    /\ pc' = "socks"
    /\ UNCHANGED <<nNodes, update_lists, treeNodes, treeLinks, frozen, freezeCalls,
                   unfreezeCalls, exc, nodesRead, linksRead, cur, socket,
                   new_node_names, log, raised, calls, configured, refused, report>>
    /\ UNCHANGED nodeVars

(* `socket = node.inputs[sock_index]` under add_fail("Search socket"): the *)
(* value of the local variable afterwards.                                 *)
search_socket(old, node, sock_index) ==
    IF sock_index \in NodeInputs THEN <<node, sock_index>> ELSE old

(* One key of custom_socket_props: int(str_index), the socket search, and  *)
(* set_input_socket_property on whatever `socket` then names.              *)
socket_property ==
    /\ pc = "socks"
    /\ queue # <<>>
    /\ LET index == ParseInt(Head(queue))
           node == new_node_names[cur.name]
       IN  IF index = None
           THEN /\ log' = Guard(log, "Reading socket properties", TRUE)
                /\ raised' = Note(raised, "Reading socket properties", TRUE)
                /\ UNCHANGED <<socket, calls, exc, pc>>
           ELSE LET found == index[1] \in NodeInputs
                    now == search_socket(socket, node, index[1])
                IN  /\ log' = Guard(log, "Search socket", ~found)
                    /\ raised' = Note(raised, "Search socket", ~found)
                    /\ socket' = now
                    /\ IF now = None
                       THEN \* BPYProperty(socket, ...) reads the unassigned local
                            /\ exc' = "UnboundLocalError"
                            /\ pc' = "finally"
                            /\ UNCHANGED calls
                       ELSE /\ calls' = Append(calls, [kind |-> "sock", socket |-> now,
                                                        wanted |-> <<node, index[1]>>])
                            /\ UNCHANGED <<exc, pc>>
    /\ queue' = Tail(queue)
    /\ UNCHANGED <<nNodes, update_lists, treeNodes, treeLinks, frozen, freezeCalls,
                   unfreezeCalls, nodesRead, linksRead, cur, new_node_names,
                   configured, refused, report>>
    /\ UNCHANGED nodeVars

(* The three loops of an entry have ended: back to the head of the loop    *)
(* over the entries.                                                       *)
end_node ==
    /\ pc = "socks"
    /\ queue = <<>>
    /\ configured' = configured \cup {cur.name}
    /\ calls' = <<>>
    /\ pc' = "nodes"
    /\ UNCHANGED <<nNodes, update_lists, treeNodes, treeLinks, frozen, freezeCalls,
                   unfreezeCalls, exc, nodesRead, linksRead, cur, queue, socket,
                   new_node_names, log, raised, refused, report>>
    /\ UNCHANGED nodeVars

(* The names handed to add_link after the guarded lookups of lines 63-65:  *)
(* a KeyError leaves the name(s) not yet replaced as the entry gave them.  *)
Plain(name) == <<name, 0>>
link_names(names, from_node_name, to_node_name) ==
    IF from_node_name \notin DOMAIN names
    THEN [from |-> Plain(from_node_name), to |-> Plain(to_node_name), caught |-> TRUE]
    ELSE IF to_node_name \notin DOMAIN names
    THEN [from |-> names[from_node_name], to |-> Plain(to_node_name), caught |-> TRUE]
    ELSE [from |-> names[from_node_name], to |-> names[to_node_name], caught |-> FALSE]

(* TreeGenerator.add_link: the link made, or None with the exception       *)
(* caught by add_fail("Creating link").                                    *)
add_link(nodes, from_node_name, from_socket_index, to_node_name, to_socket_index) ==
    IF /\ from_node_name \in NamesOf(nodes)
       /\ from_socket_index \in NodeOutputs
       /\ to_node_name \in NamesOf(nodes)
       /\ to_socket_index \in NodeInputs
    THEN <<[from |-> <<from_node_name, from_socket_index>>,
            to |-> <<to_node_name, to_socket_index>>]>>
    ELSE None

(* The loop over the entries has ended (the generator is exhausted).       *)
NodesDone == pc = "nodes" /\ nodesRead = nNodes

(* The first resumption of _links: links = self._structure['update_lists'] *)
read_links ==
    /\ NodesDone
    /\ update_lists' \in UpdateLists
    /\ pc' = "links"
    /\ UNCHANGED <<nNodes, treeNodes, treeLinks, frozen, freezeCalls, unfreezeCalls,
                   exc, nodesRead, linksRead, cur, queue, socket, new_node_names, log,
                   raised, calls, configured, refused, report>>
    /\ UNCHANGED nodeVars

(* One iteration of `for ... in self._links()`: the unpacking of the entry *)
(* inside the generator, the lookups, add_link.                            *)
next_link ==
    /\ pc = "links"
    /\ linksRead < Len(update_lists)
    /\ linksRead' = linksRead + 1
    /\ LET entry == update_lists[linksRead + 1]
       IN  IF Len(entry) # 4
           THEN \* ValueError inside the generator: caught there, the generator ends
                /\ log' = Guard(log, "Reading links", TRUE)
                /\ raised' = Note(raised, "Reading links", TRUE)
                /\ pc' = "finally"
                /\ UNCHANGED treeLinks
           ELSE LET n == link_names(new_node_names, entry[1], entry[3])
                    made == add_link(treeNodes, n.from, entry[2], n.to, entry[4])
                IN  /\ log' = Guard(Guard(log, "Search node to link", n.caught),
                                    "Creating link", made = None)
                    /\ raised' = Note(Note(raised, "Search node to link", n.caught),
                                      "Creating link", made = None)
                    /\ treeLinks' = IF made = None THEN treeLinks
                                    ELSE treeLinks \cup
                                         {[from |-> made[1].from, to |-> made[1].to,
                                           entry |-> linksRead + 1]}
                    /\ pc' = "links"
    /\ UNCHANGED <<nNodes, update_lists, treeNodes, frozen, freezeCalls, unfreezeCalls,
                   exc, nodesRead, cur, queue, socket, new_node_names, calls,
                   configured, refused, report>>
    /\ UNCHANGED nodeVars

(* TreeGenerator.start_from_tree after its yield: whether unfreeze runs    *)
(* when the with body ended with the exception e ("none": normally).       *)
unfreeze_on_success_only(e) == e = "none"
unfreeze_runs(e) == TRUE

BodyEnded == pc = "finally" \/ (pc = "links" /\ linksRead = Len(update_lists))

(* The end of the with statement: the finally clause, then either          *)
(* report_log_result is next or the exception leaves import_into_tree.     *)
leave_tree ==
    /\ BodyEnded
    /\ frozen' = IF unfreeze_runs(exc) THEN FALSE ELSE frozen
    /\ unfreezeCalls' = IF unfreeze_runs(exc) THEN unfreezeCalls + 1 ELSE unfreezeCalls
    /\ pc' = IF exc = "none" THEN "report" ELSE "raised"
    /\ UNCHANGED <<nNodes, update_lists, treeNodes, treeLinks, freezeCalls, exc,
                   nodesRead, linksRead, cur, queue, socket, new_node_names, log,
                   raised, calls, configured, refused, report>>
    /\ UNCHANGED nodeVars

(* self._fails_log.report_log_result(), the last statement.                *)
report_result ==
    /\ pc = "report"
    /\ report' = report_log_result(log)
    /\ pc' = "done"
    /\ UNCHANGED <<nNodes, update_lists, treeNodes, treeLinks, frozen, freezeCalls,
                   unfreezeCalls, exc, nodesRead, linksRead, cur, queue, socket,
                   new_node_names, log, raised, calls, configured, refused>>
    /\ UNCHANGED nodeVars

importNext ==
    \/ start_from_tree
    \/ next_node
    \/ read_node_attributes
    \/ set_node_attribute
    \/ read_node_properties
    \/ set_node_property
    \/ read_input_socket_properties
    \/ socket_property
    \/ end_node
    \/ read_links
    \/ next_link
    \/ leave_tree
    \/ report_result

(***************************************************************************)
(* Part II.  VectorMathNode.                                               *)
(***************************************************************************)
MaxLen == 2     \* length of a list of the data on a socket, at each level

(* mode_items: the identifiers of the enum, in order.                      *)
mode_items == <<"CROSS", "DOT", "ADD", "SUB", "LEN", "DISTANCE", "NORMALIZE", "NEG",
                "NOISE-V", "NOISE-S", "CELL-V", "CELL-S", "ANGLE", "PROJECT", "REFLECT">>
Modes == {mode_items[i] : i \in 1..Len(mode_items)}

(* The tables of update(): function name -> number of arguments.           *)
scalar_out ==
    ("DOT" :> 2) @@ ("DISTANCE" :> 2) @@ ("LEN" :> 1) @@ ("NOISE-S" :> 1)
    @@ ("CELL-S" :> 1) @@ ("ANGLE" :> 2)
vector_out ==
    ("CROSS" :> 2) @@ ("ADD" :> 2) @@ ("SUB" :> 2) @@ ("NORMALIZE" :> 1) @@ ("NEG" :> 1)
    @@ ("NOISE-V" :> 1) @@ ("CELL-V" :> 1) @@ ("REFLECT" :> 2) @@ ("PROJECT" :> 2)

(* Vector(l): a mathutils.Vector from three numbers; w.to_tuple() back.    *)
Vector(l) == [x |-> l[1], y |-> l[2], z |-> l[3]]
to_tuple(w) == <<w.x, w.y, w.z>>

(* The lambdas of the tables.  Cross, dot, add, sub and negate are         *)
(* computed; the functions of the host library that leave the integers     *)
(* are kept as terms over their arguments.                                 *)
Term(name, args) == [x |-> <<name, "x">> \o args, y |-> <<name, "y">> \o args,
                     z |-> <<name, "z">> \o args]
f2(name, u, v) ==
    CASE name = "CROSS" -> [x |-> u.y * v.z - u.z * v.y,
                            y |-> u.z * v.x - u.x * v.z,
                            z |-> u.x * v.y - u.y * v.x]
      [] name = "ADD" -> [x |-> u.x + v.x, y |-> u.y + v.y, z |-> u.z + v.z]
      [] name = "SUB" -> [x |-> u.x - v.x, y |-> u.y - v.y, z |-> u.z - v.z]
      [] name = "DOT" -> u.x * v.x + u.y * v.y + u.z * v.z
      [] name \in {"REFLECT", "PROJECT"} -> Term(name, <<to_tuple(u), to_tuple(v)>>)
      [] OTHER -> <<name, to_tuple(u), to_tuple(v)>>
f1(name, u) ==
    CASE name = "NEG" -> [x |-> 0 - u.x, y |-> 0 - u.y, z |-> 0 - u.z]
      [] name \in {"NORMALIZE", "NOISE-V", "CELL-V"} -> Term(name, <<to_tuple(u)>>)
      [] OTHER -> <<name, to_tuple(u)>>

(* The value a recursion returns at level 0.                               *)
Returned(w, scalar) == IF scalar THEN w ELSE to_tuple(w)

(* recurse_fx: f applied to every vector, the nesting kept.                *)
RECURSIVE recurse_fx(_, _, _, _)
recurse_fx(l, f, leve, scalar) ==
    IF leve = 0
    THEN Returned(f1(f, Vector(l)), scalar)
    ELSE [i \in 1..Len(l) |-> recurse_fx(l[i], f, leve - 1, scalar)]

(* Python lists are objects: the lists of a socket's data are kept in a    *)
(* heap, keyed by their place in the data as it was read (<<s>> is the     *)
(* list of socket s, <<s, i>> its i-th list, ...).  A list above level 1   *)
(* holds keys, a list at level 1 holds vectors.                            *)
RECURSIVE Load(_, _, _)
Load(key, value, leve) ==
    IF leve = 1
    THEN {<<key, value>>}
    ELSE {<<key, [i \in 1..Len(value) |-> Append(key, i)]>>}
         \cup UNION {Load(Append(key, i), value[i], leve - 1) : i \in 1..Len(value)}
HeapOf(pairs) ==
    [key \in {p[1] : p \in pairs} |-> (CHOOSE p \in pairs : p[1] = key)[2]]

(* data_structure.fullList(l, count): l is extended in place by its last   *)
(* element until it has count elements.  The elements added are the last   *)
(* element itself: for a list of lists, further references to one list.    *)
fullList(h, l, count) ==
    LET d == count - Len(h[l])
    IN  IF d > 0
        THEN [h EXCEPT ![l] = @ \o [a \in 1..d |-> @[Len(@)]]]
        ELSE h

Max(a, b) == IF a >= b THEN a ELSE b

(* recurse_fxy on the heap h: l1 and l2 are keys of lists (at level 0, two *)
(* vectors).  The result and the heap as the call leaves it.               *)
RECURSIVE recurse_fxy(_, _, _, _, _, _)
RECURSIVE fxy_loop(_, _, _, _, _, _, _, _, _)
recurse_fxy(h, l1, l2, f, leve, scalar) ==
    IF leve = 0
    THEN [heap |-> h, res |-> Returned(f2(f, Vector(l1), Vector(l2)), scalar)]
    ELSE LET max_obj == Max(Len(h[l1]), Len(h[l2]))
             padded == fullList(fullList(h, l1, max_obj), l2, max_obj)
         IN  fxy_loop(padded, l1, l2, f, leve, scalar, 1, Len(padded[l1]), <<>>)
fxy_loop(h, l1, l2, f, leve, scalar, i, n, res) ==
    IF i > n
    THEN [heap |-> h, res |-> res]
    ELSE LET r == recurse_fxy(h, h[l1][i], h[l2][i], f, leve - 1, scalar)
         IN  fxy_loop(r.heap, l1, l2, f, leve, scalar, i + 1, n, Append(res, r.res))

(* The call of update(): the data of the two sockets, each read as its own *)
(* copy by SvGetSocketAnyType, handed to recurse_fxy.                      *)
call_recurse_fxy(u, v, f, leve, scalar) ==
    recurse_fxy(HeapOf(Load(<<1>>, u, leve) \cup Load(<<2>>, v, leve)),
                <<1>>, <<2>>, f, leve, scalar).res

(* The data on a socket: its nesting depth as data_structure.levelsOflist  *)
(* counts it (a vector counts one level) and the nested lists.             *)
Unlinked == [levels |-> 0, data |-> <<>>]
levelsOflist(u) == u.levels
Vecs == {<<1, 0, 0>>, <<0, 1, 0>>}
Lists(S) == UNION {[1..k -> S] : k \in 1..MaxLen}
SocketData ==
    {[levels |-> 2, data |-> d] : d \in Lists(Vecs)}
    \cup {[levels |-> 3, data |-> d] : d \in Lists(Lists(Vecs))}
SampleData ==
    {[levels |-> 2, data |-> <<<<1, 0, 0>>, <<0, 1, 0>>>>],
     [levels |-> 3, data |-> <<<<<<1, 0, 0>>, <<0, 1, 0>>>>, <<<<0, 1, 0>>>>>>]}

(* A socket, as self.inputs.new(type, name, ...) makes it.                 *)
Sock(type, name) == [name |-> name, type |-> type]

(* init(): inputs U and V, output W; items_ defaults to CROSS.             *)
NodeInit ==
    /\ items_ = "CROSS"
    /\ inputs = <<Sock("VerticesSocket", "U"), Sock("VerticesSocket", "V")>>
    /\ outputs = <<Sock("VerticesSocket", "W")>>
    /\ scalar_output_socket = FALSE
    /\ label = ""
    /\ out_linked = FALSE
    /\ u_up = Unlinked
    /\ v_up = Unlinked
    /\ out_data = [socket |-> "", value |-> <<>>]
    /\ updated = FALSE

Has(socks, n) == \E i \in 1..Len(socks) : socks[i].name = n
Without(socks, n) == SelectSeq(socks, LAMBDA x : x.name # n)

(* update(), lines 93-105: the number of arguments, <<>> if the function   *)
(* is in neither table.                                                    *)
nrInputs(mode) ==
    IF mode \in DOMAIN scalar_out THEN <<scalar_out[mode]>>
    ELSE IF mode \in DOMAIN vector_out THEN <<vector_out[mode]>>
    ELSE <<>>

(* update(), lines 93-105: the output sockets.                             *)
adjust_outputs(outs, mode) ==
    IF mode \in DOMAIN scalar_out
    THEN IF Has(outs, "W")
         THEN Append(Without(outs, "W"), Sock("StringsSocket", "out"))
         ELSE outs
    ELSE IF mode \in DOMAIN vector_out
    THEN IF Has(outs, "out")
         THEN Append(Without(outs, "out"), Sock("VerticesSocket", "W"))
         ELSE outs
    ELSE outs

(* update(), lines 98 and 105.                                             *)
adjust_scalar_flag(flag, mode) ==
    IF mode \in DOMAIN scalar_out THEN TRUE
    ELSE IF mode \in DOMAIN vector_out THEN FALSE
    ELSE flag

(* update(), lines 109-112: the input sockets.                             *)
adjust_inputs_remove_only(ins, n) ==
    IF n < Len(ins) THEN Without(ins, "V") ELSE ins
adjust_inputs(ins, n) ==
    IF n < Len(ins) THEN Without(ins, "V")
    ELSE IF n > Len(ins) THEN Append(ins, Sock("VerticesSocket", "V"))
    ELSE ins

(* update(), lines 119-152 and 155-187: the result handed to               *)
(* SvSetSocketAnyType for the linked output.  With data of two depths the *)
(* recursion reaches Vector() of something that is no vector: the          *)
(* exception is swallowed by the bare except and result stays [].          *)
compute(mode, n, ins, scalar, u, v) ==
    LET vector1 == IF Has(ins, "U") THEN u ELSE Unlinked
        vector2 == IF Has(ins, "V") THEN v ELSE Unlinked
        leve == levelsOflist(vector1)
    IN  IF n = 1 /\ Len(vector1.data) > 0
        THEN recurse_fx(vector1.data, mode, leve - 1, scalar)
        ELSE IF n = 2 /\ Len(vector1.data) > 0 /\ Len(vector2.data) > 0
        THEN IF levelsOflist(vector2) = leve
             THEN call_recurse_fxy(vector1.data, vector2.data, mode, leve - 1, scalar)
             ELSE <<>>
        ELSE <<>>

(* VectorMathNode.update().                                                *)
update ==
    LET n == nrInputs(items_)
        outs == adjust_outputs(outputs, items_)
        flag == adjust_scalar_flag(scalar_output_socket, items_)
        ins == IF n = <<>> THEN inputs ELSE adjust_inputs(inputs, n[1])
        linked == out_linked /\ outs = outputs
        v == IF Has(ins, "V") /\ Has(inputs, "V") THEN v_up ELSE Unlinked
    IN  /\ n # <<>>
        /\ outputs' = outs
        /\ scalar_output_socket' = flag
        /\ inputs' = ins
        /\ label' = items_
        /\ out_linked' = linked
        /\ v_up' = v
        /\ out_data' =
             IF linked /\ (Has(outs, "W") \/ Has(outs, "out"))
             THEN [socket |-> IF Has(outs, "W") /\ ~Has(outs, "out") THEN "W" ELSE "out",
                   value |-> compute(items_, n[1], ins, flag, u_up, v)]
             ELSE out_data
        /\ updated' = TRUE
        /\ UNCHANGED <<items_, u_up>>
        /\ UNCHANGED importVars

(* The user picks a function: the property items_ changes.                 *)
set_items_ ==
    /\ \E m \in Modes : items_' = m
    /\ updated' = FALSE
    /\ UNCHANGED <<inputs, outputs, scalar_output_socket, label, out_linked, u_up,
                   v_up, out_data>>
    /\ UNCHANGED importVars

(* The user links the output socket to another node and an input socket to *)
(* a socket carrying data.                                                 *)
link_output ==
    /\ ~out_linked
    /\ out_linked' = TRUE
    /\ UNCHANGED <<items_, inputs, outputs, scalar_output_socket, label, u_up, v_up,
                   out_data, updated>>
    /\ UNCHANGED importVars

link_input ==
    /\ \E d \in SampleData :
         \/ /\ Has(inputs, "U")
            /\ u_up' = d
            /\ UNCHANGED v_up
         \/ /\ Has(inputs, "V")
            /\ v_up' = d
            /\ UNCHANGED u_up
    /\ UNCHANGED <<items_, inputs, outputs, scalar_output_socket, label, out_linked,
                   out_data, updated>>
    /\ UNCHANGED importVars

vars == <<importVars, nodeVars>>

(* The importer, beside a node that is left alone.                         *)
Init == ImportInit /\ NodeInit
Next == importNext
Spec == Init /\ [][Next]_vars

(* The importer at rest.                                                   *)
ImportIdle ==
    /\ nNodes = 0
    /\ update_lists = <<>>
    /\ treeNodes = {}
    /\ treeLinks = {}
    /\ frozen = FALSE
    /\ freezeCalls = 0
    /\ unfreezeCalls = 0
    /\ pc = "idle"
    /\ exc = "none"
    /\ nodesRead = 0
    /\ linksRead = 0
    /\ cur = NoImporter
    /\ queue = <<>>
    /\ socket = None
    /\ new_node_names = EmptyLog
    /\ log = EmptyLog
    /\ raised = EmptyLog
    /\ calls = <<>>
    /\ configured = {}
    /\ refused = {}
    /\ report = [message |-> "", lines |-> {}]

(* The node in an editor: functions picked, sockets linked, updates.       *)
NodeNext == set_items_ \/ link_output \/ link_input \/ update
InitNode == ImportIdle /\ NodeInit
SpecNode == InitNode /\ [][NodeNext]_vars

(* The node fresh from init(), a function picked and both inputs linked to *)
(* data of one depth; the output is linked and the node updates.           *)
FxyInit ==
    /\ items_ \in Modes
    /\ inputs = <<Sock("VerticesSocket", "U"), Sock("VerticesSocket", "V")>>
    /\ outputs = <<Sock("VerticesSocket", "W")>>
    /\ scalar_output_socket = FALSE
    /\ label = ""
    /\ out_linked = FALSE
    /\ u_up \in SocketData
    /\ v_up \in {d \in SocketData : d.levels = u_up.levels}
    /\ out_data = [socket |-> "", value |-> <<>>]
    /\ updated = FALSE
FxyNext == link_output \/ update
InitFxy == ImportIdle /\ FxyInit
SpecFxy == InitFxy /\ [][FxyNext]_vars

(***************************************************************************)
(* Properties of the importer, under Spec.                                 *)
(***************************************************************************)
Returned_ == pc \in {"report", "done"}    \* the with statement ended normally
Count(l, fail_name) == IF fail_name \in DOMAIN l THEN l[fail_name] ELSE 0
FailNames == DOMAIN log \cup DOMAIN raised

(* C1: import_into_tree never aborts: whatever entry is malformed, no      *)
(* exception escapes, and when the with statement has ended every entry of *)
(* "nodes" was processed and report_log_result is next or done.            *)
C1_NeverAborts ==
    /\ exc = "none"
    /\ pc # "raised"
    /\ pc = "finally" => nodesRead = nNodes

WellFormedLink(e) ==
    /\ Len(e) = 4
    /\ e[1] \in DOMAIN new_node_names
    /\ e[3] \in DOMAIN new_node_names
    /\ e[2] \in NodeOutputs
    /\ e[4] \in NodeInputs
(* C2: every well-formed entry of update_lists whose two nodes this import *)
(* created and whose socket indices exist has its link in the tree once    *)
(* the import has returned, whatever the other entries are.                *)
C2_LinksIsolated ==
    Returned_ =>
        \A k \in 1..Len(update_lists) :
            WellFormedLink(update_lists[k]) => \E l \in treeLinks : l.entry = k

C3_LogExact ==
    /\ \A n \in FailNames : Count(log, n) = Count(raised, n)
    /\ has_fails(log) <=> (\E n \in DOMAIN raised : raised[n] > 0)
    /\ pc = "done" =>
         IF DOMAIN raised = {}
         THEN report = [message |-> "Import done with no fails", lines |-> {}]
         ELSE /\ report.message = "During import next fails has happened:"
              /\ report.lines = {<<n, raised[n]>> : n \in DOMAIN raised}
C3_LogSteps ==
    \A n \in DOMAIN log' \cup DOMAIN raised' :
        /\ Count(log', n) - Count(log, n) = Count(raised', n) - Count(raised, n)
        /\ Count(log', n) - Count(log, n) \in {0, 1}
(* C3: the fail log is an exact counter: each name's count is the number   *)
(* of guarded steps of that name that raised, a step adds one per caught   *)
(* exception, has_fails is true iff a guarded step raised, and the report  *)
(* is "no fails" iff none raised and else lists every name with its count. *)
C3_FailLog == [](C3_LogExact) /\ [][C3_LogSteps]_vars
C3_Witness ==
    /\ pc = "done"
    /\ \E n \in DOMAIN log : log[n] = 2
    /\ Cardinality(DOMAIN log) >= 2

ImportedFor(e) == {n \in treeNodes : n.by = "import" /\ n.name[1] = e}
C4_RefusalStep ==
    refused' # refused =>
        /\ Count(log', "Creating node") = Count(log, "Creating node") + 1
        /\ \A n \in DOMAIN log' \ {"Creating node"} : Count(log', n) = Count(log, n)
        /\ UNCHANGED <<treeNodes, treeLinks, new_node_names, socket, configured, exc,
                       frozen>>
        /\ calls' = <<>>
        /\ pc' = "nodes"
        /\ nodesRead' = nodesRead + 1
C4_RefusedStaysOut ==
    /\ \A e \in refused :
         /\ e \notin DOMAIN new_node_names
         /\ e \notin configured
         /\ ImportedFor(e) = {}
         /\ cur.name = e => calls = <<>>
    /\ \A e \in (1..nodesRead) \ refused :
         exc = "none" => e \in DOMAIN new_node_names /\ ImportedFor(e) # {}
    /\ Returned_ => configured = (1..nNodes) \ refused
C7_LinksOnlyImported ==
    \A l \in treeLinks :
        LET e == update_lists[l.entry]
        IN  /\ e[1] \in DOMAIN new_node_names
            /\ e[3] \in DOMAIN new_node_names
            /\ l.from = <<new_node_names[e[1]], e[2]>>
            /\ l.to = <<new_node_names[e[3]], e[4]>>

(* C8: every set_input_socket_property call writes to the input socket, at *)
(* the recorded index, of the node created for the entry in hand; nothing  *)
(* is written when that socket does not exist.                             *)
C8_SocketPropertyTarget ==
    \A i \in 1..Len(calls) :
        calls[i].kind = "sock" =>
            /\ calls[i].wanted[2] \in NodeInputs
            /\ calls[i].socket = calls[i].wanted

C9_Bracket ==
    /\ freezeCalls <= 1
    /\ unfreezeCalls <= 1
    /\ frozen <=> (freezeCalls = 1 /\ unfreezeCalls = 0)
    /\ pc = "start" =>
         /\ freezeCalls = 0
         /\ treeLinks = {}
         /\ \A n \in treeNodes : n.by = "host"
    /\ pc \in {"report", "done", "raised"} => freezeCalls = 1 /\ unfreezeCalls = 1
    /\ report.message # "" => ~frozen /\ unfreezeCalls = 1
C9_HostCallsFrozen ==
    (treeNodes' # treeNodes \/ treeLinks' # treeLinks \/ Len(calls') > Len(calls)
     \/ linksRead' # linksRead \/ nodesRead' # nodesRead)
        => frozen /\ frozen'
(* C9: tree.freeze is called once, before any node or link is added; every *)
(* host call of the import is made on the frozen tree; unfreeze is called  *)
(* once on every path, also when an exception leaves the body; the report  *)
(* is made after the unfreeze.                                             *)
C9_FreezeBracket == [](C9_Bracket) /\ [][C9_HostCallsFrozen]_vars
C9_Witness == pc = "raised" /\ unfreezeCalls = 1 /\ ~frozen /\ ImportedFor(1) # {}

Rank(call) ==
    CASE call.kind = "new" -> 0 [] call.kind = "attr" -> 1
      [] call.kind = "prop" -> 2 [] call.kind = "sock" -> 3
AttrOrder == <<"location", "height", "width", "label", "hide", "color", "use_custom_color">>
Place(a) == CHOOSE i \in 1..Len(AttrOrder) : AttrOrder[i] = a
AttrsCalled == {calls[i].name : i \in {j \in 1..Len(calls) : calls[j].kind = "attr"}}
(* C10: the host calls of an entry come in the order creation, attributes  *)
(* (location first, then height, width, label, hide, color,                *)
(* use_custom_color, those present), params, socket properties; and the    *)
(* first link is attempted when every node is created and configured.      *)
C10_ReplayOrder ==
    /\ pc \in {"created", "attrs", "props", "socks"} =>
         /\ Len(calls) >= 1
         /\ calls[1] = [kind |-> "new", node |-> new_node_names[cur.name]]
         /\ calls[1].node \in NamesOf(treeNodes)
    /\ \A i, j \in 1..Len(calls) :
         i < j =>
            /\ Rank(calls[i]) <= Rank(calls[j])
            /\ Rank(calls[j]) # 0
            /\ (calls[i].kind = "attr" /\ calls[j].kind = "attr")
                  => Place(calls[i].name) < Place(calls[j].name)
    /\ pc \in {"props", "socks"} => AttrsCalled = cur.keys
    /\ pc = "attrs" => AttrsCalled \subseteq cur.keys
    /\ (pc = "links" \/ linksRead > 0 \/ treeLinks # {}) =>
         /\ nodesRead = nNodes
         /\ calls = <<>>
         /\ configured = DOMAIN new_node_names
C10_Witness ==
    /\ pc = "socks"
    /\ cur.name = 2
    /\ {"location", "height", "color"} \subseteq AttrsCalled
    /\ \E i \in 1..Len(calls) : calls[i].kind = "prop"
    /\ \E i \in 1..Len(calls) : calls[i].kind = "sock"

(***************************************************************************)
(* Properties of the vector math node, under SpecNode and SpecFxy.         *)
(***************************************************************************)
ScalarFunctions == {"DOT", "DISTANCE", "LEN", "NOISE-S", "CELL-S", "ANGLE"}
TwoArgumentFunctions ==
    {"CROSS", "DOT", "ADD", "SUB", "DISTANCE", "ANGLE", "PROJECT", "REFLECT"}
Arity(mode) == IF mode \in TwoArgumentFunctions THEN 2 ELSE 1

(* C5: after update() the node has exactly one output, "out"               *)
(* (StringsSocket) iff the function is one of DOT, DISTANCE, LEN, NOISE-S, *)
(* CELL-S, ANGLE and else "W" (VerticesSocket); input U is there, input V  *)
(* iff the function takes two arguments, the number of inputs is the       *)
(* arity; scalar_output_socket is True iff the output is "out"; and every  *)
(* function is in exactly one of the two tables.                           *)
C5_SocketShape ==
    /\ \A m \in Modes : (m \in DOMAIN scalar_out) # (m \in DOMAIN vector_out)
    /\ Cardinality(Modes) = 15
    /\ nrInputs(items_) # <<>>
    /\ updated =>
         /\ Len(outputs) = 1
         /\ outputs[1] = IF items_ \in ScalarFunctions
                         THEN [name |-> "out", type |-> "StringsSocket"]
                         ELSE [name |-> "W", type |-> "VerticesSocket"]
         /\ Has(inputs, "U")
         /\ Has(inputs, "V") <=> items_ \in TwoArgumentFunctions
         /\ Len(inputs) = Arity(items_)
         /\ scalar_output_socket <=> outputs[1].name = "out"
         /\ label = items_
C5_Witness ==
    /\ updated
    /\ items_ = "ANGLE"
    /\ Len(inputs) = 2
    /\ outputs[1].name = "out"
    /\ out_data.socket = "out"
    /\ out_data.value # <<>>

Min(a, b) == IF a <= b THEN a ELSE b
RECURSIVE Broadcast(_, _, _, _, _)
Broadcast(l1, l2, f, leve, scalar) ==
    IF leve = 0
    THEN Returned(f2(f, Vector(l1), Vector(l2)), scalar)
    ELSE [i \in 1..Max(Len(l1), Len(l2)) |->
            Broadcast(l1[Min(i, Len(l1))], l2[Min(i, Len(l2))], f, leve - 1, scalar)]
FxyComputed ==
    /\ updated
    /\ out_data.socket # ""
    /\ items_ \in TwoArgumentFunctions
(* C6: recurse_fxy broadcasts: at each level the result has                *)
(* max(len(l1), len(l2)) elements, the i-th the result for                 *)
(* l1[min(i, len(l1)-1)] and l2[min(i, len(l2)-1)], and at level 0 it is f *)
(* of the two vectors (a tuple for vector functions, else the scalar).     *)
C6_Broadcasting ==
    FxyComputed =>
        out_data.value = Broadcast(u_up.data, v_up.data, items_, u_up.levels - 1,
                                   items_ \in ScalarFunctions)

====
